---- MODULE Spec2Model ----
(***************************************************************************)
(* Model of the chat relay server of src/p1g1C.c (the server half of the   *)
(* file, lines 168-734): the acceptor (main), the dispatcher thread, one   *)
(* client_thread per accepted connection, the SIGINT handler, the client   *)
(* registry (clients_head, clients_mutex) and the message queue            *)
(* (msg_head/msg_tail, msg_mutex, msg_cond).                               *)
(*                                                                         *)
(* A critical section that cannot block is one atomic step guarded by its  *)
(* mutex being free; broadcast_formatted, which sends while it holds       *)
(* clients_mutex, takes one step per registry entry.  Writes made without  *)
(* a lock (the login commit, close(c->sockfd)) are steps of their own.     *)
(***************************************************************************)
EXTENDS Naturals, Sequences, FiniteSets

\* ------------------------------------------------------------------ bounds
MaxClients == 2     \* connections the acceptor accepts in one run
MaxMsgs == 2        \* MSG: lines read from all connections together
MaxFail == 1        \* injected resource failures (calloc, pthread_create, accept)
MaxSigint == 1      \* SIGINT deliveries
SoloClients == 1    \* connections of a run that has failures and SIGINT
DuoMsgs == 1        \* MSG: lines of a run with concurrent connections

\* ------------------------------------------------------- program constants
MAX_USERNAME == 32
MAX_MESSAGE == 1024
MaxAttempts == 5
SERVER_PASSWORD == "PleaseGiveUsExtraCredit:)"

Clients == 1..MaxClients
FDs == 1..MaxClients
NoUser == ""

\* ------------------------------------------------------------ C strings
\* strncmp(s, p, strlen(p)) == 0
HasPrefix(s, p) == Len(s) >= Len(p) /\ SubSeq(s, 1, Len(p)) = p

\* s + n : the string after its first n bytes
Skip(s, n) == SubSeq(s, n + 1, Len(s))

\* strchr(s, '\n') : index of the first newline from position i on, 0 when none
RECURSIVE NlFrom(_, _)
NlFrom(s, i) ==
    IF i > Len(s) THEN 0
    ELSE IF SubSeq(s, i, i) = "\n" THEN i
    ELSE NlFrom(s, i + 1)

Strchr(s) == NlFrom(s, 1)

\* char *nl = strchr(buf, '\n'); if (nl) *nl = '\0';
TrimNl(s) == IF Strchr(s) = 0 THEN s ELSE SubSeq(s, 1, Strchr(s) - 1)

\* strncpy(dst, s, n) into a zeroed buffer, then read as a C string
Strncpy(s, n) == IF Len(s) > n THEN SubSeq(s, 1, n) ELSE s

\* the line-splitting of the receive loop: the first line of p and the rest
LineOf(p) ==
    IF Strchr(p) # 0
    THEN Strncpy(SubSeq(p, 1, Strchr(p) - 1), MAX_MESSAGE - 1)
    ELSE Strncpy(p, MAX_MESSAGE - 1)

RestOf(p) == IF Strchr(p) # 0 THEN Skip(p, Strchr(p)) ELSE ""

\* -------------------------------------------------------------- inputs
Long31 == "abcdefghijklmnopqrstuvwxyz01234"
WrongPass == "PleaseGiveUsExtraCredit"

\* what a peer may send in the password phase (one line per recv_line)
PwLines == { "PASS:" \o SERVER_PASSWORD \o "\n",
             "PASS:" \o WrongPass \o "\n",
             "hello\n" }

\* what a peer may send as its login read
LoginReads == { "LOGIN:a\n",
                "LOGIN:" \o Long31 \o "1\n",
                "LOGIN:" \o Long31 \o "2\n",
                "LOGIN:\n",
                "a\n" }

\* what a peer may send in one read of the receive loop
ActiveReads == { "MSG:hi\n", "QUIT\n", "WHO\n", "MSG:hi\nQUIT\n" }

VARIABLES
    server_running,   \* static volatile int server_running
    server_sock,      \* TRUE while the listening descriptor is open
    clients,          \* the registry list, clients_head first
    cl,               \* the client_t structs: sockfd, username, logged_in, mem
    clients_mutex,    \* "free" or the thread holding it across steps
    msgq,             \* the message queue, msg_head first
    msg_mutex,        \* "free", or the thread that holds it and cannot go on
    fdtab,            \* descriptor table: fd -> connection it names, 0 = closed
    pc,               \* each client_thread's position
    attempts,         \* client_thread's local attempts
    uname,            \* client_thread's local uname
    rbuf,             \* client_thread's unprocessed part of recvbuf (p)
    dpc, dmsg, dcur,  \* dispatcher: position, message m, iteration cursor c
    dwake,            \* the dispatcher has been signalled on msg_cond
    mpc, mcur,        \* main: position, the client_t being set up
    spc, nsig,        \* sigint_handler: position, deliveries so far
    nacc, nmsg, nfail,\* connections accepted, MSG lines read, failures injected
    lim,              \* what the environment does in this run: how many of each
    \* history (not program state)
    enqLog,           \* events in the order enqueue_message inserted them
    deqLog,           \* events in the order dequeue_message returned them
    dropped,          \* events enqueue_message dropped (calloc failed)
    lastSent,         \* per client: seq of the last broadcast sent on its sockfd
    bstart,           \* clients registered and logged in when this broadcast locked
    bsent,            \* clients this broadcast has called send_all for so far
    bfail,            \* those of bsent whose send_all returned -1
    reply,            \* per client: the last line its handler sent
    hist              \* per client: counters of the handler's history

vars == << server_running, server_sock, clients, cl, clients_mutex, msgq, msg_mutex, fdtab,
           pc, attempts, uname, rbuf, dpc, dmsg, dcur, dwake, mpc, mcur, spc,
           nsig, nacc, nmsg, nfail, lim, enqLog, deqLog, dropped, lastSent, bstart, bsent, bfail, reply, hist >>

NoClient == [sockfd |-> 0, username |-> NoUser, logged_in |-> 0, mem |-> "none"]
NoMsg == [sender |-> "", text |-> "", seq |-> 0, kind |-> "none", who |-> 0]
NoHist == [prompts |-> 0, fails |-> 0, kinds |-> {}, buf |-> "", want |-> "",
           rivals |-> {}, passed |-> FALSE, unlinks |-> 0, closes |-> 0,
           goneAt |-> 0, ahead |-> "", torn |-> FALSE, line |-> "",
           lread |-> "", held |-> FALSE, lerrs |-> 0, shut |-> 0]
\* (line is the line handed by the handler's last step, "" when that step
\* handed none)

InitWith(l) ==
    /\ lim = l
    /\ server_running = TRUE
    /\ server_sock = TRUE
    /\ clients = << >>
    /\ cl = [c \in Clients |-> NoClient]
    /\ clients_mutex = "free"
    /\ msgq = << >>
    /\ msg_mutex = "free"
    /\ fdtab = [f \in FDs |-> 0]
    /\ pc = [c \in Clients |-> "none"]
    /\ attempts = [c \in Clients |-> 0]
    /\ uname = [c \in Clients |-> NoUser]
    /\ rbuf = [c \in Clients |-> ""]
    /\ dpc = "d_loop"
    /\ dmsg = NoMsg
    /\ dcur = 0
    /\ dwake = FALSE
    /\ mpc = "m_loop"
    /\ mcur = 0
    /\ spc = "idle"
    /\ nsig = 0
    /\ nacc = 0
    /\ nmsg = 0
    /\ nfail = 0
    /\ enqLog = << >>
    /\ deqLog = << >>
    /\ dropped = << >>
    /\ lastSent = [c \in Clients |-> 0]
    /\ bstart = {}
    /\ bsent = {}
    /\ bfail = {}
    /\ reply = [c \in Clients |-> ""]
    /\ hist = [c \in Clients |-> NoHist]

\* the process is gone once main has returned
Alive == mpc # "exited"

\* ------------------------------------------------------ registry (pure)
\* add_client: c->next = clients_head; clients_head = c
AddClient(list, c) == << c >> \o list

\* a variant of remove_client that unlinks the head whatever it is
UnlinkHead(list, c) == IF list = << >> THEN << >> ELSE Tail(list)

\* remove_client: unlink the first entry equal to c
RECURSIVE Unlink(_, _)
Unlink(list, c) ==
    IF list = << >> THEN << >>
    ELSE IF Head(list) = c THEN Tail(list)
    ELSE << Head(list) >> \o Unlink(Tail(list), c)

InList(list, c) == \E i \in DOMAIN list : list[i] = c

\* the registered sessions with logged_in set: those a broadcast that locks now
\* is due to reach
Audience == { c \in Clients : InList(clients, c) /\ cl[c].logged_in = 1 }

\* a variant of username_taken that does not compare the names
UsernameTakenAny(name) ==
    \E i \in DOMAIN clients : cl[clients[i]].logged_in = 1

\* username_taken: some entry has logged_in set and the same username
UsernameTaken(name) ==
    \E i \in DOMAIN clients :
        cl[clients[i]].logged_in = 1 /\ cl[clients[i]].username = name

\* ------------------------------------------------------- queue (pure)
\* a variant of the insertion that links the new event at msg_head
QueueInsertAtHead(q, m) == << m >> \o q

\* enqueue_message's insertion at msg_tail
QueueInsert(q, m) == Append(q, m)

\* a variant of the removal that returns the event at msg_tail
QueueBack(q) == q[Len(q)]

\* dequeue_message's removal at msg_head: the event returned
QueueFront(q) == Head(q)

\* a variant of the removal that leaves msg_head where it is
QueueKeep(q) == q

\* dequeue_message's removal at msg_head: msg_head = msg_head->next
QueueRest(q) == Tail(q)

\* the message_t enqueue_message builds; seq, kind and who are history
NewMsg(sender, text, kind, who) ==
    [sender |-> Strncpy(sender, MAX_USERNAME - 1),
     text |-> Strncpy(text, MAX_MESSAGE - 1),
     seq |-> Len(enqLog) + Len(dropped) + 1, kind |-> kind, who |-> who]

\* pthread_cond_signal(&msg_cond): wakes the dispatcher when it waits
CondSignal == dwake' = (dwake \/ dpc = "d_wait")

\* what a calloc or pthread_create may do here: succeed, or fail while the
\* run's failures last
Outcomes == IF nfail < lim.fail THEN {TRUE, FALSE} ELSE {TRUE}

\* enqueue_message(sender, text)
EnqueueMessage(sender, text, kind, who) ==
    \E ok \in Outcomes :
       IF ok
       THEN /\ msg_mutex = "free"
            /\ msgq' = QueueInsert(msgq, NewMsg(sender, text, kind, who))
            /\ enqLog' = Append(enqLog, NewMsg(sender, text, kind, who))
            /\ CondSignal
            /\ UNCHANGED << dropped, nfail >>
       ELSE /\ nfail' = nfail + 1               \* if (!m) return;
            /\ dropped' = Append(dropped, NewMsg(sender, text, kind, who))
            /\ UNCHANGED << msgq, enqLog, dwake >>

JoinText(u) == "*** " \o u \o " has joined the chat ***"
LeaveText(u) == "*** " \o u \o " has left the chat ***"

\* ------------------------------------------------- descriptors (pure)
\* close(fd): the descriptor stops naming a connection
CloseFd(tab, fd) == [f \in FDs |-> IF f = fd THEN 0 ELSE tab[f]]

\* accept() returns the lowest descriptor not in use
LowestFree(tab) == CHOOSE f \in FDs : tab[f] = 0 /\ \A g \in FDs : tab[g] = 0 => f <= g

\* ------------------------------------------------------ variable groups
regv == << clients, cl, clients_mutex, fdtab >>
quev == << msgq, dwake, enqLog, dropped, nfail >>
sigv == << server_running, server_sock, spc, nsig, msg_mutex >>
dispv == << dpc, dmsg, dcur, deqLog, lastSent, bstart, bsent, bfail >>
mainv == << mpc, mcur, nacc >>
locv == << attempts, uname, rbuf >>

\* ------------------------------------------------- close_and_free_client
\* close(c->sockfd)
CloseSock(c) ==
    /\ fdtab' = CloseFd(fdtab, cl[c].sockfd)
    /\ hist' = [hist EXCEPT ![c].closes = @ + 1, ![c].line = ""]
    /\ UNCHANGED << clients, cl, clients_mutex >>

\* a variant of remove_client that leaves the list as it is
RemoveClientKept(c) ==
    /\ clients_mutex = "free"
    /\ UNCHANGED << clients, hist, cl, clients_mutex, fdtab >>

\* remove_client(c), under clients_mutex
RemoveClient(c) ==
    /\ clients_mutex = "free"
    /\ clients' = Unlink(clients, c)
    /\ hist' = [hist EXCEPT ![c].unlinks = @ + (IF InList(clients, c) THEN 1 ELSE 0),
                            ![c].goneAt = Len(enqLog) + Len(dropped)]
    /\ UNCHANGED << cl, clients_mutex, fdtab >>

\* free(c)
FreeClient(c) ==
    /\ cl' = [cl EXCEPT ![c].mem = "freed"]
    /\ UNCHANGED << clients, clients_mutex, fdtab, hist >>

\* ------------------------------------------------------- client_thread
\* a variant of PwVerdict that compares only as far as the payload goes
PwVerdictPrefix(buf) ==
    IF ~HasPrefix(buf, "PASS:") THEN "noprefix"
    ELSE IF HasPrefix(SERVER_PASSWORD, Skip(buf, 5)) THEN "ok"
    ELSE "bad"

\* the verdict on one password line (buf after the newline is trimmed)
PwVerdict(buf) ==
    IF ~HasPrefix(buf, "PASS:") THEN "noprefix"
    ELSE IF Skip(buf, 5) = SERVER_PASSWORD THEN "ok"
    ELSE "bad"

\* a variant of PwAttempts in which a line without the prefix is not counted
PwAttemptsPayloadOnly(a, verdict) == IF verdict = "bad" THEN a + 1 ELSE a

\* attempts after a line with this verdict
PwAttempts(a, verdict) == IF verdict = "ok" THEN a ELSE a + 1

\* while (attempts < 5) after a failed line; break after OKPASS
PwLoopAgain(a, verdict) == verdict # "ok" /\ a < MaxAttempts

\* a variant of TooMany that lets every connection through to the login
TooManyNever(a) == FALSE

\* if (attempts >= 5) after the loop
TooMany(a) == a >= MaxAttempts

PwReply(verdict) ==
    IF verdict = "noprefix" THEN "ERR:Expected PASS:<password>"
    ELSE IF verdict = "ok" THEN "OKPASS"
    ELSE "ERR:Bad password"

\* history: whether a received line is PASS: with the configured password, and
\* which kind of failure it is otherwise
GoodLine(buf) == buf = "PASS:" \o SERVER_PASSWORD

FailKind(buf) ==
    IF Len(buf) >= 5 /\ SubSeq(buf, 1, 5) = "PASS:" THEN "wrong payload" ELSE "no prefix"

\* one round of the password loop: prompt, recv_line, verdict; after the last
\* round the check for too many attempts
PwRound(c) ==
    /\ Alive /\ pc[c] = "pw"
    /\ \E line \in lim.pw :
         LET buf == TrimNl(line)
             v == PwVerdict(buf)
             a == PwAttempts(attempts[c], v)
         IN /\ attempts' = [attempts EXCEPT ![c] = a]
            /\ hist' = [hist EXCEPT ![c].prompts = @ + 1,
                                    ![c].fails = @ + (IF GoodLine(buf) THEN 0 ELSE 1),
                                    ![c].kinds = IF GoodLine(buf) THEN @
                                                 ELSE @ \cup {FailKind(buf)},
                                    ![c].buf = buf,
                                    ![c].passed = @ \/ GoodLine(buf)]
            /\ IF PwLoopAgain(a, v)
               THEN /\ pc' = [pc EXCEPT ![c] = "pw"]
                    /\ reply' = [reply EXCEPT ![c] = PwReply(v)]
               ELSE IF TooMany(a)
               THEN /\ pc' = [pc EXCEPT ![c] = "close"]
                    /\ reply' = [reply EXCEPT ![c] = "ERR:Too many attempts"]
               ELSE /\ pc' = [pc EXCEPT ![c] = "login"]
                    /\ reply' = [reply EXCEPT ![c] = PwReply(v)]
    /\ UNCHANGED << lim, regv, quev, dispv, mainv, sigv, uname, rbuf, nmsg >>

\* recv_line fails after the prompt: close_and_free_client
PwRecvFail(c) ==
    /\ Alive /\ pc[c] = "pw"
    /\ hist' = [hist EXCEPT ![c].prompts = @ + 1]
    /\ reply' = [reply EXCEPT ![c] = "PASSWORD:"]
    /\ pc' = [pc EXCEPT ![c] = "close"]
    /\ UNCHANGED << lim, regv, quev, dispv, mainv, sigv, locv, nmsg >>

\* the verdict on the login read (buf after the newline is trimmed)
LoginName(buf) == Strncpy(Skip(buf, 6), MAX_USERNAME - 1)

\* a variant of LoginVerdict without the check for an empty username
LoginVerdictAnyName(buf) ==
    IF ~HasPrefix(buf, "LOGIN:") THEN "ERR:Invalid login. Send LOGIN:<username>\\n"
    ELSE "ok"

LoginVerdict(buf) ==
    IF ~HasPrefix(buf, "LOGIN:") THEN "ERR:Invalid login. Send LOGIN:<username>\\n"
    ELSE IF LoginName(buf) = "" THEN "ERR:Empty username"
    ELSE "ok"

\* handlers that found this name free and have not set logged_in yet
Rivals(c, name) ==
    { d \in Clients \ {c} : pc[d] \in {"commit", "commit_u"} /\ uname[d] = name }

\* the password loop's locals are dead once the login read returns
PwForget(h) == [h EXCEPT !.prompts = 0, !.fails = 0, !.kinds = {}, !.buf = ""]

\* history: the login read r, whether a registered logged-in session held the
\* name it asks for when it was looked up, and the ERR: lines sent for it
LoginSeen(h, r, err) ==
    [PwForget(h) EXCEPT
        !.lread = r,
        !.held = \E d \in Audience : cl[d].username = Strncpy(Skip(TrimNl(r), 6), MAX_USERNAME - 1),
        !.lerrs = @ + (IF err THEN 1 ELSE 0)]

\* the login read, its validation and username_taken(uname), the last under
\* clients_mutex
Login(c) ==
    /\ Alive /\ pc[c] = "login"
    /\ \E r \in lim.login :
         LET buf == TrimNl(r)
             v == LoginVerdict(buf)
         IN IF v # "ok"
            THEN /\ reply' = [reply EXCEPT ![c] = v]
                 /\ pc' = [pc EXCEPT ![c] = "close"]
                 /\ hist' = [hist EXCEPT ![c] = LoginSeen(@, r, TRUE)]
                 /\ UNCHANGED uname
            ELSE /\ clients_mutex = "free"
                 /\ uname' = [uname EXCEPT ![c] = LoginName(buf)]
                 /\ hist' = [hist EXCEPT ![c] =
                               [LoginSeen(@, r, UsernameTaken(LoginName(buf)))
                                  EXCEPT !.want = Skip(buf, 6),
                                         !.rivals = Rivals(c, LoginName(buf))]]
                 /\ IF UsernameTaken(LoginName(buf))
                    THEN /\ reply' = [reply EXCEPT ![c] = "ERR:Username taken"]
                         /\ pc' = [pc EXCEPT ![c] = "close"]
                    ELSE /\ pc' = [pc EXCEPT ![c] = "commit"]
                         /\ UNCHANGED reply
    /\ attempts' = [attempts EXCEPT ![c] = 0]
    /\ UNCHANGED << lim, regv, quev, dispv, mainv, sigv, rbuf, nmsg >>

\* n = recv(...) <= 0 in the login phase: close_and_free_client
LoginRecvFail(c) ==
    /\ Alive /\ pc[c] = "login"
    /\ pc' = [pc EXCEPT ![c] = "close"]
    /\ hist' = [hist EXCEPT ![c] = PwForget(@)]
    /\ attempts' = [attempts EXCEPT ![c] = 0]
    /\ UNCHANGED << lim, regv, quev, dispv, mainv, sigv, uname, rbuf, nmsg, reply >>

\* strncpy(c->username, uname, MAX_USERNAME-1) and c->logged_in = 1 are written
\* with no lock held: another thread may see either store first
CommitFirst(c) ==
    /\ Alive /\ pc[c] = "commit"
    /\ \E first \in {"username", "logged_in"} :
         IF first = "username"
         THEN /\ cl' = [cl EXCEPT ![c].username = Strncpy(uname[c], MAX_USERNAME - 1)]
              /\ pc' = [pc EXCEPT ![c] = "commit_u"]
         ELSE /\ cl' = [cl EXCEPT ![c].logged_in = 1]
              /\ pc' = [pc EXCEPT ![c] = "commit_l"]
    /\ UNCHANGED << lim, clients, clients_mutex, fdtab, quev, dispv, mainv, sigv, locv,
                    nmsg, reply, hist >>

\* the other store, then send_all(c->sockfd, "OK\n", 3)
CommitSecond(c) ==
    /\ Alive /\ pc[c] \in {"commit_u", "commit_l"}
    /\ cl' = [cl EXCEPT ![c].username = Strncpy(uname[c], MAX_USERNAME - 1),
                        ![c].logged_in = 1]
    /\ reply' = [reply EXCEPT ![c] = "OK"]
    /\ pc' = [pc EXCEPT ![c] = "join"]
    /\ UNCHANGED << lim, clients, clients_mutex, fdtab, quev, dispv, mainv, sigv, locv,
                    nmsg, hist >>

\* a variant of Join that announces nothing
JoinSkipped(c) ==
    /\ Alive /\ pc[c] = "join"
    /\ pc' = [pc EXCEPT ![c] = "loop"]
    /\ UNCHANGED << lim, regv, quev, dispv, mainv, sigv, locv, nmsg, reply, hist >>

\* enqueue_message("Server", joinmsg)
Join(c) ==
    /\ Alive /\ pc[c] = "join"
    /\ EnqueueMessage("Server", JoinText(cl[c].username), "join", c)
    /\ pc' = [pc EXCEPT ![c] = "loop"]
    /\ UNCHANGED << lim, regv, dispv, mainv, sigv, locv, nmsg, reply, hist >>

\* disconnect: enqueue_message("Server", "*** <username> has left the chat ***"),
\* then on to close_and_free_client
Disconnect(c) ==
    /\ EnqueueMessage("Server", LeaveText(cl[c].username), "leave", c)
    /\ pc' = [pc EXCEPT ![c] = "close"]
    /\ rbuf' = [rbuf EXCEPT ![c] = ""]
    /\ UNCHANGED << reply, nmsg >>

\* while (server_running) at the head of the receive loop
LoopHead(c) ==
    /\ Alive /\ pc[c] = "loop"
    /\ IF server_running
       THEN /\ pc' = [pc EXCEPT ![c] = "recv"]
            /\ UNCHANGED << quev, rbuf, reply, nmsg >>
       ELSE Disconnect(c)
    /\ hist' = [hist EXCEPT ![c].line = ""]
    /\ UNCHANGED << lim, regv, dispv, mainv, sigv, attempts, uname >>

\* number of lines of a read that the loop treats as MSG: (for the bound)
RECURSIVE MsgCount(_)
MsgCount(p) ==
    IF p = "" THEN 0
    ELSE (IF HasPrefix(LineOf(p), "MSG:") THEN 1 ELSE 0) + MsgCount(RestOf(p))

\* where the handler goes after a line: while (p && *p), then while (server_running)
AfterLine(rest) == IF rest = "" THEN "loop" ELSE "proc"

\* a variant of LineKind that takes every line that is not a message for QUIT
LineKindQuitElse(line) ==
    IF HasPrefix(line, "MSG:") THEN "msg" ELSE "quit"

\* what the loop does with a line
LineKind(line) ==
    IF HasPrefix(line, "MSG:") THEN "msg"
    ELSE IF line = "QUIT" THEN "quit"
    ELSE "unknown"

\* the command dispatch on the first line of p
LineDo(c, p) ==
    IF LineKind(LineOf(p)) = "msg"
    THEN /\ EnqueueMessage(cl[c].username, Skip(LineOf(p), 4), "msg", c)
         /\ rbuf' = [rbuf EXCEPT ![c] = RestOf(p)]
         /\ pc' = [pc EXCEPT ![c] = AfterLine(RestOf(p))]
         /\ UNCHANGED reply
    ELSE IF LineKind(LineOf(p)) = "quit"
    THEN /\ EnqueueMessage("Server", LeaveText(cl[c].username), "leave", c)
         /\ pc' = [pc EXCEPT ![c] = "close"]
         /\ rbuf' = [rbuf EXCEPT ![c] = ""]
         /\ UNCHANGED reply
    ELSE /\ reply' = [reply EXCEPT ![c] = "ERR:Unknown command"]
         /\ rbuf' = [rbuf EXCEPT ![c] = RestOf(p)]
         /\ pc' = [pc EXCEPT ![c] = AfterLine(RestOf(p))]
         /\ UNCHANGED quev

\* history: got has been received and line is handed to the command dispatch.
\* ahead is what was received and not yet handed as a line; torn is set once a
\* line is handed that is not the next newline-terminated line received
Handed(h, got, line) ==
    IF h.torn THEN [h EXCEPT !.line = line]
    ELSE IF HasPrefix(h.ahead \o got, line \o "\n")
    THEN [h EXCEPT !.line = line, !.ahead = Skip(h.ahead \o got, Len(line) + 1)]
    ELSE [h EXCEPT !.line = line, !.ahead = "", !.torn = TRUE]

\* the first line of p taken off and processed; got is what recv just returned
LineStep(c, p, got) ==
    /\ hist' = [hist EXCEPT ![c] = Handed(@, got, LineOf(p))]
    /\ LineDo(c, p)

\* n = recv(c->sockfd, recvbuf, ...) returns data; its first line
Recv(c) ==
    /\ Alive /\ pc[c] = "recv"
    /\ \E r \in lim.reads :
         /\ nmsg + MsgCount(r) <= lim.msg
         /\ nmsg' = nmsg + MsgCount(r)
         /\ LineStep(c, r, r)
    /\ UNCHANGED << lim, regv, dispv, mainv, sigv, attempts, uname >>

\* if (n <= 0) break
RecvFail(c) ==
    /\ Alive /\ pc[c] = "recv"
    /\ Disconnect(c)
    /\ hist' = [hist EXCEPT ![c].line = ""]
    /\ UNCHANGED << lim, regv, dispv, mainv, sigv, attempts, uname >>

\* a further line of the same read
ProcLine(c) ==
    /\ Alive /\ pc[c] = "proc"
    /\ LineStep(c, rbuf[c], "")
    /\ UNCHANGED << lim, regv, dispv, mainv, sigv, attempts, uname, nmsg >>

\* close_and_free_client(c) by the handler: close, remove_client, free
HClose(c) ==
    /\ Alive /\ pc[c] = "close"
    /\ CloseSock(c)
    /\ pc' = [pc EXCEPT ![c] = "remove"]
    /\ UNCHANGED << lim, quev, dispv, mainv, sigv, locv, nmsg, reply >>

HRemove(c) ==
    /\ Alive /\ pc[c] = "remove"
    /\ RemoveClient(c)
    /\ pc' = [pc EXCEPT ![c] = "free"]
    /\ UNCHANGED << lim, quev, dispv, mainv, sigv, locv, nmsg, reply >>

HFree(c) ==
    /\ Alive /\ pc[c] = "free"
    /\ FreeClient(c)
    /\ pc' = [pc EXCEPT ![c] = "done"]
    /\ UNCHANGED << lim, quev, dispv, mainv, sigv, locv, nmsg, reply >>

\* ---------------------------------------------------- dispatcher_thread
\* while (server_running) and dequeue_message: entered, or woken in
\* pthread_cond_wait; msg_mutex is held from the check to the wait or the return
DDequeue ==
    /\ Alive
    /\ dpc = "d_loop" \/ (dpc = "d_wait" /\ dwake)
    /\ msg_mutex = "free" \/ (dpc = "d_loop" /\ ~server_running)
    /\ IF ~server_running
       THEN /\ dpc' = "d_done"
            /\ UNCHANGED << msgq, dmsg, deqLog >>
       ELSE IF msgq = << >>
       THEN /\ dpc' = "d_wait"
            /\ UNCHANGED << msgq, dmsg, deqLog >>
       ELSE /\ dmsg' = QueueFront(msgq)
            /\ msgq' = QueueRest(msgq)
            /\ deqLog' = Append(deqLog, QueueFront(msgq))
            /\ dpc' = "d_lock"
    /\ dwake' = FALSE
    /\ UNCHANGED << lim, regv, mainv, sigv, locv, pc, dcur, lastSent, bstart, bsent, bfail,
                    enqLog, dropped, nfail, nmsg, reply, hist >>

\* broadcast_formatted: pthread_mutex_lock(&clients_mutex); c = clients_head
DLock ==
    /\ Alive /\ dpc = "d_lock"
    /\ clients_mutex = "free"
    /\ clients_mutex' = "dispatcher"
    /\ dcur' = 1
    /\ dpc' = "d_send"
    /\ bstart' = Audience
    /\ bsent' = {}
    /\ bfail' = {}
    /\ UNCHANGED << lim, clients, cl, fdtab, quev, mainv, sigv, locv, pc, dmsg, deqLog,
                    lastSent, nmsg, reply, hist >>

\* a variant of the loop body that skips the entry of the event's author
SendsToOthers(c) == cl[c].logged_in = 1 /\ c # dmsg.who

\* whether the loop body sends to this entry
SendsTo(c) == cl[c].logged_in = 1

\* what a peer can make of a send on its connection
PeerOutcomes == { "ok", "fail", "block" }

\* how send(fd, ...) of send_all can end: -1 on a closed descriptor; on an open
\* one it returns the bytes, fails (the peer has reset the connection), or
\* waits until the peer reads (the socket is blocking and its buffer full)
SendOutcomes(c) ==
    IF fdtab[cl[c].sockfd] = 0 THEN { "fail" } ELSE lim.peer

\* a variant of the loop that leaves the list when send_all returns -1
AfterSendBreak(ok, cur) == IF ok THEN cur + 1 ELSE Len(clients) + 1

\* the loop after send_all has returned: the result is ignored, c = c->next
AfterSend(ok, cur) == cur + 1

\* send_all returns for the entry at the cursor
SendReturns(ok) ==
    /\ lastSent' = [lastSent EXCEPT ![clients[dcur]] = dmsg.seq]
    /\ bsent' = bsent \cup {clients[dcur]}
    /\ bfail' = IF ok THEN bfail ELSE bfail \cup {clients[dcur]}
    /\ dcur' = AfterSend(ok, dcur)

\* one entry of the list: if (c->logged_in) send_all(c->sockfd, ...); c = c->next
DSend ==
    /\ Alive /\ dpc = "d_send" /\ dcur <= Len(clients)
    /\ IF SendsTo(clients[dcur])
       THEN \E o \in SendOutcomes(clients[dcur]) :
               IF o = "block"
               THEN /\ dpc' = "d_blocked"
                    /\ UNCHANGED << lastSent, bsent, bfail, dcur >>
               ELSE /\ SendReturns(o = "ok")
                    /\ UNCHANGED dpc
       ELSE /\ dcur' = dcur + 1
            /\ UNCHANGED << lastSent, bsent, bfail, dpc >>
    /\ UNCHANGED << lim, regv, quev, mainv, sigv, locv, pc, dmsg, deqLog, bstart,
                    nmsg, reply, hist >>

\* the send() that was waiting returns: the peer has read, or has gone
DUnblock ==
    /\ Alive /\ dpc = "d_blocked"
    /\ \E ok \in BOOLEAN : SendReturns(ok)
    /\ dpc' = "d_send"
    /\ UNCHANGED << lim, regv, quev, mainv, sigv, locv, pc, dmsg, deqLog, bstart,
                    nmsg, reply, hist >>

\* end of the list: pthread_mutex_unlock(&clients_mutex); free(m)
DUnlock ==
    /\ Alive /\ dpc = "d_send" /\ dcur > Len(clients)
    /\ clients_mutex' = "free"
    /\ dmsg' = NoMsg
    /\ dcur' = 0
    /\ dpc' = "d_loop"
    /\ bstart' = {}
    /\ bsent' = {}
    /\ bfail' = {}
    /\ UNCHANGED << lim, clients, cl, fdtab, quev, mainv, sigv, locv, pc, deqLog,
                    lastSent, nmsg, reply, hist >>

\* ------------------------------------------------------------------ main
\* while (server_running) of the accept loop
MLoop ==
    /\ Alive /\ mpc = "m_loop"
    /\ mpc' = IF server_running THEN "m_accept" ELSE "m_closeall"
    /\ UNCHANGED << lim, regv, quev, dispv, sigv, locv, pc, mcur, nacc, nmsg, reply,
                    hist >>

\* accept() returns a connection; calloc of the client_t, its fields set
MAccept ==
    /\ Alive /\ mpc = "m_accept"
    /\ server_sock /\ nacc < lim.acc
    /\ nacc' = nacc + 1
    /\ \E ok \in Outcomes :
         IF ok
         THEN /\ cl' = [cl EXCEPT ![nacc + 1] =
                         [sockfd |-> LowestFree(fdtab), username |-> NoUser,
                          logged_in |-> 0, mem |-> "live"]]
              /\ fdtab' = [fdtab EXCEPT ![LowestFree(fdtab)] = nacc + 1]
              /\ mcur' = nacc + 1
              /\ mpc' = "m_add"
              /\ UNCHANGED nfail
         ELSE /\ nfail' = nfail + 1             \* if (!c) { close(clientfd); continue; }
              /\ mpc' = "m_loop"
              /\ UNCHANGED << cl, fdtab, mcur >>
    /\ UNCHANGED << lim, clients, clients_mutex, msgq, dwake, enqLog, dropped, dispv,
                    sigv, locv, pc, nmsg, reply, hist >>

\* accept() fails once the listening descriptor is closed: EINTR (continue) or
\* another error (break)
MAcceptFail ==
    /\ Alive /\ mpc = "m_accept"
    /\ ~server_sock
    /\ \E eintr \in BOOLEAN : mpc' = IF eintr THEN "m_loop" ELSE "m_closeall"
    /\ UNCHANGED << lim, regv, quev, dispv, sigv, locv, pc, mcur, nacc, nmsg, reply,
                    hist >>

\* accept() fails for another reason while the server runs: perror, break
MAcceptErr ==
    /\ Alive /\ mpc = "m_accept"
    /\ server_sock /\ nfail < lim.fail
    /\ nfail' = nfail + 1
    /\ mpc' = "m_closeall"
    /\ UNCHANGED << lim, regv, msgq, dwake, enqLog, dropped, dispv, sigv, locv, pc,
                    mcur, nacc, nmsg, reply, hist >>

\* add_client(c); pthread_create(&tid, NULL, client_thread, c)
MAdd ==
    /\ Alive /\ mpc = "m_add"
    /\ clients_mutex = "free"
    /\ clients' = AddClient(clients, mcur)
    /\ \E ok \in Outcomes :
         IF ok
         THEN /\ pc' = [pc EXCEPT ![mcur] = "pw"]
              /\ mpc' = "m_loop"
              /\ mcur' = 0
              /\ UNCHANGED nfail
         ELSE /\ nfail' = nfail + 1             \* pthread_create failed
              /\ mpc' = "m_cf_close"
              /\ UNCHANGED << pc, mcur >>
    /\ UNCHANGED << lim, cl, clients_mutex, fdtab, msgq, dwake, enqLog, dropped, dispv,
                    sigv, locv, nacc, nmsg, reply, hist >>

\* close_and_free_client(c) by main after pthread_create failed
MCfClose ==
    /\ Alive /\ mpc = "m_cf_close"
    /\ CloseSock(mcur)
    /\ mpc' = "m_cf_remove"
    /\ UNCHANGED << lim, quev, dispv, sigv, locv, pc, mcur, nacc, nmsg, reply >>

MCfRemove ==
    /\ Alive /\ mpc = "m_cf_remove"
    /\ RemoveClient(mcur)
    /\ mpc' = "m_cf_free"
    /\ UNCHANGED << lim, quev, dispv, sigv, locv, pc, mcur, nacc, nmsg, reply >>

MCfFree ==
    /\ Alive /\ mpc = "m_cf_free"
    /\ FreeClient(mcur)
    /\ mpc' = "m_loop"
    /\ mcur' = 0
    /\ UNCHANGED << lim, quev, dispv, sigv, locv, pc, nacc, nmsg, reply >>

\* the descriptors of every registered client_t, closed
RECURSIVE CloseAll(_, _)
CloseAll(tab, list) ==
    IF list = << >> THEN tab
    ELSE CloseAll(CloseFd(tab, cl[Head(list)].sockfd), Tail(list))

\* history: main's shutdown has called close on the descriptor of each entry
ShutSeen(h, list) ==
    [c \in Clients |-> IF InList(list, c) THEN [h[c] EXCEPT !.shut = @ + 1] ELSE h[c]]

\* shutdown: close(it->sockfd) for every entry, under clients_mutex
MCloseAll ==
    /\ Alive /\ mpc = "m_closeall"
    /\ clients_mutex = "free"
    /\ fdtab' = CloseAll(fdtab, clients)
    /\ hist' = ShutSeen(hist, clients)
    /\ mpc' = "m_signal"
    /\ UNCHANGED << lim, clients, cl, clients_mutex, quev, dispv, sigv, locv, pc, mcur,
                    nacc, nmsg, reply >>

\* pthread_cond_signal(&msg_cond) under msg_mutex
MSignal ==
    /\ Alive /\ mpc = "m_signal"
    /\ msg_mutex = "free"
    /\ CondSignal
    /\ mpc' = "m_join"
    /\ UNCHANGED << lim, regv, msgq, enqLog, dropped, nfail, dispv, sigv, locv, pc,
                    mcur, nacc, nmsg, reply, hist >>

\* pthread_join(dispatcher, NULL); return 0
MJoin ==
    /\ Alive /\ mpc = "m_join"
    /\ dpc = "d_done"
    /\ mpc' = "exited"
    /\ UNCHANGED << lim, regv, quev, dispv, sigv, locv, pc, mcur, nacc, nmsg, reply,
                    hist >>

\* --------------------------------------------------------- sigint_handler
\* server_running = 0
SigRun ==
    /\ Alive /\ spc = "idle" /\ nsig < lim.sig
    /\ server_running' = FALSE
    /\ nsig' = nsig + 1
    /\ spc' = "s_close"
    /\ UNCHANGED << lim, regv, quev, dispv, mainv, locv, pc, server_sock, msg_mutex,
                    nmsg, reply, hist >>

\* if (server_sock >= 0) close(server_sock)
SigClose ==
    /\ Alive /\ spc = "s_close"
    /\ server_sock' = FALSE
    /\ spc' = "s_signal"
    /\ UNCHANGED << lim, regv, quev, dispv, mainv, locv, pc, server_running, nsig,
                    msg_mutex, nmsg, reply, hist >>

\* pthread_cond_signal(&msg_cond) under msg_mutex
SigSignal ==
    /\ Alive /\ spc = "s_signal"
    /\ msg_mutex = "free"
    /\ CondSignal
    /\ spc' = "idle"
    /\ UNCHANGED << lim, regv, msgq, enqLog, dropped, nfail, dispv, mainv, locv, pc,
                    server_running, server_sock, nsig, msg_mutex, nmsg, reply, hist >>

\* SIGINT is delivered to whichever thread the kernel picks; the handler then
\* runs on that thread.  When the thread is inside a critical section of
\* msg_mutex, the handler's pthread_mutex_lock(&msg_mutex) waits for a lock its
\* own thread holds: handler and thread stay there, and the lock stays held.

\* whether the next step of client_thread c calls enqueue_message
EnqueuesNext(c) ==
    \/ pc[c] \in { "join", "recv" }
    \/ pc[c] = "loop" /\ ~server_running
    \/ pc[c] = "proc" /\ LineKind(LineOf(rbuf[c])) # "unknown"

\* the handler as far as it gets on a thread that holds msg_mutex
SigSelfLock(holder) ==
    /\ spc = "idle" /\ nsig < lim.sig
    /\ msg_mutex = "free"
    /\ server_running' = FALSE
    /\ server_sock' = FALSE
    /\ nsig' = nsig + 1
    /\ msg_mutex' = holder
    /\ spc' = "s_stuck"

\* on a client_thread that has locked msg_mutex in enqueue_message
SigInEnqueue(c) ==
    /\ Alive /\ EnqueuesNext(c)
    /\ SigSelfLock("client")
    /\ pc' = [pc EXCEPT ![c] = "stuck"]
    /\ UNCHANGED << lim, regv, quev, dispv, mainv, locv, nmsg, reply, hist >>

\* on the dispatcher, which has locked msg_mutex in dequeue_message
SigInDequeue ==
    /\ Alive
    /\ (dpc = "d_loop" /\ server_running) \/ (dpc = "d_wait" /\ dwake)
    /\ SigSelfLock("dispatcher")
    /\ dpc' = "d_stuck"
    /\ UNCHANGED << lim, regv, quev, mainv, locv, pc, dmsg, dcur, deqLog, lastSent,
                    bstart, bsent, bfail, nmsg, reply, hist >>

\* on main, which has locked msg_mutex to signal msg_cond
SigInSignal ==
    /\ Alive /\ mpc = "m_signal"
    /\ SigSelfLock("main")
    /\ mpc' = "m_stuck"
    /\ UNCHANGED << lim, regv, quev, dispv, locv, pc, mcur, nacc, nmsg, reply, hist >>

\* ------------------------------------------------------------------ next
Handler(c) ==
    \/ PwRound(c) \/ PwRecvFail(c)
    \/ Login(c) \/ LoginRecvFail(c)
    \/ CommitFirst(c) \/ CommitSecond(c) \/ Join(c)
    \/ LoopHead(c) \/ Recv(c) \/ RecvFail(c) \/ ProcLine(c)
    \/ HClose(c) \/ HRemove(c) \/ HFree(c)

Dispatcher == DDequeue \/ DLock \/ DSend \/ DUnblock \/ DUnlock

Acceptor == MLoop \/ MAccept \/ MAdd

Failures == MAcceptErr \/ MCfClose \/ MCfRemove \/ MCfFree

Shutdown ==
    \/ SigRun \/ SigClose \/ SigSignal
    \/ MAcceptFail \/ MCloseAll \/ MSignal \/ MJoin

Interrupt == (\E c \in Clients : SigInEnqueue(c)) \/ SigInDequeue \/ SigInSignal

\* the whole server
Next ==
    \/ \E c \in Clients : Handler(c)
    \/ Dispatcher \/ Acceptor \/ Failures \/ Shutdown \/ Interrupt

\* ------------------------------------------------------------ scenarios
GoodPw == { "PASS:" \o SERVER_PASSWORD \o "\n" }

\* every peer behaviour, every failure, SIGINT
Whole ==
    [acc |-> MaxClients, msg |-> MaxMsgs, fail |-> MaxFail, sig |-> MaxSigint,
     pw |-> PwLines, login |-> LoginReads, reads |-> ActiveReads,
     peer |-> PeerOutcomes]

\* one connection against the whole server: allocation failures and SIGINT
\* included, the peer reading what it is sent
Solo ==
    [acc |-> SoloClients, msg |-> MaxMsgs, fail |-> MaxFail, sig |-> MaxSigint,
     pw |-> PwLines, login |-> LoginReads, reads |-> ActiveReads,
     peer |-> { "ok" }]

\* concurrent connections that log in under one name, chat and quit; a peer
\* may read late, not at all, or reset its connection
Duo ==
    [acc |-> MaxClients, msg |-> DuoMsgs, fail |-> 0, sig |-> 0,
     pw |-> GoodPw, login |-> { "LOGIN:a\n" }, reads |-> { "MSG:hi\nQUIT\n" },
     peer |-> PeerOutcomes]

\* concurrent connections through the password and login phases
Entry ==
    [acc |-> MaxClients, msg |-> 0, fail |-> 0, sig |-> 0,
     pw |-> PwLines, login |-> LoginReads, reads |-> { "WHO\nQUIT\n" },
     peer |-> { "ok" }]

\* what a peer's lines look like when a read ends inside a line
SplitReads == { "MSG:h", "i\n", "WHO\nQUIT\n" }

\* one connection whose reads may end inside a line; no failures, no SIGINT
Lines ==
    [acc |-> SoloClients, msg |-> MaxMsgs, fail |-> 0, sig |-> 0,
     pw |-> GoodPw, login |-> { "LOGIN:a\n" }, reads |-> SplitReads,
     peer |-> PeerOutcomes]

\* a peer that logs in under the name the server uses for its announcements
ServerReads == { "MSG:*** b has joined the chat ***\n", "MSG:hi\nQUIT\n" }

\* one connection that may take the name Server; no failures, no SIGINT
Masq ==
    [acc |-> SoloClients, msg |-> MaxMsgs, fail |-> 0, sig |-> 0,
     pw |-> GoodPw, login |-> { "LOGIN:Server\n", "LOGIN:a\n" }, reads |-> ServerReads,
     peer |-> PeerOutcomes]

Init == InitWith(Whole)

Spec == Init /\ [][Next]_vars

\* the acceptor and the connection handlers
NextLogin == (\E c \in Clients : Handler(c)) \/ Acceptor

SpecLogin == InitWith(Entry) /\ [][NextLogin]_vars

\* the acceptor, the handlers and the dispatcher
NextRelay == NextLogin \/ Dispatcher

SpecLines == InitWith(Lines) /\ [][NextRelay]_vars

SpecMasq == InitWith(Masq) /\ [][NextRelay]_vars

\* the whole server, in the Solo and the Duo runs
SpecChat == (InitWith(Solo) \/ InitWith(Duo)) /\ [][Next]_vars

\* ------------------------------------------------------------- claims
Ended == { "close", "remove", "free", "done" }
LoggedIn == { "join", "loop", "recv", "proc" }
PastPassword == { "login", "commit", "commit_u", "commit_l" } \cup LoggedIn

\* C8: failed password attempts of both kinds (no PASS: prefix, wrong payload)
\* are counted by the one counter attempts; once it reaches 5 the handler has
\* sent ERR:Too many attempts and gone on to close and remove the session; no
\* connection is prompted a sixth time, and none reaches the login phase after
\* five failures.
C8_SharedCounter ==
    \A c \in Clients :
        /\ pc[c] \in { "pw", "login" } => attempts[c] = hist[c].fails
        /\ hist[c].prompts <= MaxAttempts
        /\ hist[c].fails >= MaxAttempts =>
              /\ pc[c] \in Ended
              /\ reply[c] = "ERR:Too many attempts"
              /\ ~hist[c].passed
              /\ pc[c] \in { "remove", "free", "done" } => hist[c].closes = 1
              /\ pc[c] \in { "free", "done" } =>
                    hist[c].unlinks = 1 /\ ~InList(clients, c)

\* a connection that failed five times with lines of both kinds and is gone
C8_Witness ==
    \E c \in Clients :
        /\ pc[c] = "done"
        /\ hist[c].fails = MaxAttempts
        /\ hist[c].kinds = { "wrong payload", "no prefix" }
        /\ reply[c] = "ERR:Too many attempts"

\* C9: a PASS: line with the configured password, after 0 to 4 failed
\* attempts, is answered OKPASS and takes the handler to the login phase; a
\* handler is in or past the login phase only if it received such a line.
C9_PasswordGate ==
    \A c \in Clients :
        /\ hist[c].buf = "PASS:" \o SERVER_PASSWORD =>
              /\ pc[c] = "login"
              /\ reply[c] = "OKPASS"
              /\ hist[c].fails <= MaxAttempts - 1
        /\ pc[c] = "login" => hist[c].buf = "PASS:" \o SERVER_PASSWORD
        /\ pc[c] \in PastPassword => hist[c].passed
        /\ cl[c].logged_in = 1 => hist[c].passed

\* a connection in the login phase after four failed attempts of both kinds
C9_Witness ==
    \E c \in Clients :
        /\ pc[c] = "login"
        /\ hist[c].fails = MaxAttempts - 1
        /\ hist[c].kinds = { "wrong payload", "no prefix" }
        /\ reply[c] = "OKPASS"

\* C1: of two handlers that both passed the password phase and both sent LOGIN
\* with the same username while neither was logged in (each a rival of the
\* other's check), only one is answered OK and logged in.
C1_OneWinner ==
    \A c, d \in Clients :
        (c # d /\ d \in hist[c].rivals /\ uname[c] = uname[d]) =>
            ~(reply[c] = "OK" /\ reply[d] = "OK"
              /\ cl[c].logged_in = 1 /\ cl[d].logged_in = 1)

\* C2: the registry never holds two sessions with logged_in = 1 and the same
\* (assigned) username.
C2_UniqueUsername ==
    \A i, j \in DOMAIN clients :
        (i # j /\ cl[clients[i]].logged_in = 1 /\ cl[clients[j]].logged_in = 1
             /\ cl[clients[i]].username # NoUser) =>
            cl[clients[i]].username # cl[clients[j]].username

\* the username the server keeps of a requested one
Kept(want) == Strncpy(want, MAX_USERNAME - 1)

\* the registered, logged-in usernames
ActiveNames == { cl[c].username : c \in Audience }

\* C10 as stated: handlers that log in with pairwise distinct non-empty
\* usernames (as sent) are never answered ERR:Username taken, are answered OK,
\* and once all are logged in the registry holds exactly their sessions.
C10_AsSent ==
    /\ \A c \in Clients :
          (hist[c].want # "" /\ \A d \in Clients \ {c} : hist[d].want # hist[c].want) =>
              /\ reply[c] # "ERR:Username taken"
              /\ pc[c] = "join" => reply[c] = "OK"
    /\ ((\A c \in Clients : pc[c] \in LoggedIn)
          /\ \A c, d \in Clients : c # d => hist[d].want # hist[c].want) =>
              /\ Audience = Clients
              /\ Cardinality(ActiveNames) = Cardinality(Clients)

\* C10 (amended): handlers that log in with non-empty usernames pairwise
\* distinct in their first MAX_USERNAME-1 characters are never answered
\* ERR:Username taken, are answered OK, and once all are logged in the
\* registry holds exactly their sessions under those (kept) usernames.
C10_DistinctKept ==
    /\ \A c \in Clients :
          (hist[c].want # ""
             /\ \A d \in Clients \ {c} : Kept(hist[d].want) # Kept(hist[c].want)) =>
              /\ reply[c] # "ERR:Username taken"
              /\ pc[c] = "join" => reply[c] = "OK"
    /\ ((\A c \in Clients : pc[c] \in LoggedIn)
          /\ \A c, d \in Clients : c # d => Kept(hist[d].want) # Kept(hist[c].want)) =>
              /\ Audience = Clients
              /\ ActiveNames = { Kept(hist[c].want) : c \in Clients }
              /\ Cardinality(ActiveNames) = Cardinality(Clients)

\* all connections logged in at once under distinct names, one of them longer
\* than the server keeps
C10_Witness ==
    /\ \A c \in Clients : pc[c] \in LoggedIn /\ reply[c] = "OK"
    /\ Cardinality(ActiveNames) = MaxClients
    /\ \E c \in Clients : Len(hist[c].want) > MAX_USERNAME - 1

\* C3: the events dequeue_message has returned are, in order, the first of
\* the events enqueue_message has inserted: the queue is a global FIFO.
C3_Fifo ==
    /\ Len(deqLog) <= Len(enqLog)
    /\ deqLog = SubSeq(enqLog, 1, Len(deqLog))

\* events of two sessions wait in the queue together after others were returned
C3_Witness ==
    /\ Len(deqLog) >= 1
    /\ Len(msgq) >= 2
    /\ msgq[1].who # msgq[2].who

\* C4: every inserted event is either returned already or still queued, none
\* is returned twice, the event being broadcast is the one last returned;
\* while the server runs the dispatcher never sleeps unsignalled on a
\* non-empty queue, and it stops only once server_running is 0.
C4_ExactlyOnce ==
    /\ enqLog = deqLog \o msgq
    /\ \A i, j \in DOMAIN deqLog : i # j => deqLog[i].seq # deqLog[j].seq
    /\ dpc \in { "d_lock", "d_send" } => dmsg = deqLog[Len(deqLog)]
    /\ (dpc = "d_wait" /\ ~dwake /\ server_running) => msgq = << >>
    /\ dpc = "d_done" => ~server_running

\* events were delivered, then the server stopped with an event left queued
C4_Witness ==
    /\ ~server_running
    /\ dpc = "d_done"
    /\ Len(deqLog) >= 1
    /\ msgq # << >>

\* C5: the broadcasts sent to any one session follow the order of enqueueing:
\* each send carries an event enqueued after the one sent to it before.
C5_SameOrder == [][\A c \in Clients : lastSent[c] <= lastSent'[c]]_vars

\* two sessions have each been sent the third event enqueued
C5_Witness ==
    \E c, d \in Clients :
        c # d /\ lastSent[c] >= 3 /\ lastSent[d] >= 3 /\ Len(deqLog) >= 3

\* C6: when the broadcast of a MSG: event ends, every session that was
\* registered and logged in when it began has been sent the event, the
\* registered author among them; and no session has been sent an event
\* enqueued after its removal from the registry.
C6_Audience ==
    /\ (dpc = "d_send" /\ dcur > Len(clients) /\ dmsg.kind = "msg") =>
          /\ bstart \subseteq bsent
          /\ \A c \in bsent : lastSent[c] = dmsg.seq
          /\ (InList(clients, dmsg.who) /\ cl[dmsg.who].logged_in = 1) =>
                dmsg.who \in bsent
    /\ \A c \in Clients :
          (hist[c].unlinks > 0 /\ ~InList(clients, c)) =>
              lastSent[c] <= hist[c].goneAt

\* a MSG: event has been sent to every connection, its author included
C6_Witness ==
    /\ dpc = "d_send" /\ dcur > Len(clients)
    /\ dmsg.kind = "msg"
    /\ bsent = Clients
    /\ dmsg.who \in bsent

\* the leave events of a session in a log
LeavesIn(log, c) ==
    Cardinality({ i \in DOMAIN log : log[i].kind = "leave" /\ log[i].who = c })

\* C7 as stated: a session that completed login and whose handler has ended
\* has exactly one leave event enqueued and was removed from the registry
\* exactly once; no session has more than one of either.
C7_OneLeaveEnqueued ==
    \A c \in Clients :
        /\ LeavesIn(enqLog, c) <= 1 /\ hist[c].unlinks <= 1
        /\ (pc[c] = "done" /\ cl[c].logged_in = 1) =>
              /\ LeavesIn(enqLog, c) = 1
              /\ hist[c].unlinks = 1 /\ ~InList(clients, c)

\* C7 (amended): for a session that completed login and whose handler has
\* ended, enqueue_message was called exactly once for its leave event (which
\* it inserted, or dropped when its allocation failed), and the session was
\* removed from the registry exactly once.
C7_OneLeaveCall ==
    \A c \in Clients :
        /\ LeavesIn(enqLog, c) + LeavesIn(dropped, c) <= 1 /\ hist[c].unlinks <= 1
        /\ LeavesIn(enqLog, c) + LeavesIn(dropped, c) = 1 =>
              cl[c].logged_in = 1 /\ pc[c] \in Ended
        /\ (pc[c] \in Ended /\ cl[c].logged_in = 1) =>
              LeavesIn(enqLog, c) + LeavesIn(dropped, c) = 1
        /\ (pc[c] = "done" /\ cl[c].logged_in = 1) =>
              hist[c].unlinks = 1 /\ ~InList(clients, c)

\* a logged-in session ended by the server leaving the receive loop
C7_Witness ==
    \E c \in Clients :
        /\ pc[c] = "done" /\ cl[c].logged_in = 1
        /\ ~server_running
        /\ LeavesIn(enqLog, c) = 1
        /\ hist[c].unlinks = 1

\* C11: once server_running is 0, a dispatcher that is blocked in
\* pthread_cond_wait and not yet signalled is still reached by a wake-up: a
\* signaller (sigint_handler, or main on its way to the shutdown signal) has
\* yet to signal msg_cond and msg_mutex can be taken for it.
C11_WakeReaches ==
    (~server_running /\ dpc = "d_wait" /\ ~dwake) =>
        /\ msg_mutex = "free"
        /\ \/ spc \in { "s_close", "s_signal" }
           \/ mpc \in { "m_loop", "m_accept", "m_add", "m_cf_close", "m_cf_remove",
                        "m_cf_free", "m_closeall", "m_signal" }

\* C12: every line the receive loop hands to the command dispatch is the next
\* complete newline-terminated line of the bytes received: a line that arrives
\* in two reads is handed once, whole.
C12_WholeLines == \A c \in Clients : ~hist[c].torn

\* the events of a session in a log
EventsOf(log, c) == { i \in DOMAIN log : log[i].who = c }

\* the reply the protocol gives to a login line that cannot be accepted, ""
\* when none applies (classified from the line as received)
Rejection(read, held) ==
    IF Len(TrimNl(read)) < 6 \/ SubSeq(TrimNl(read), 1, 6) # "LOGIN:"
    THEN "ERR:Invalid login. Send LOGIN:<username>\\n"
    ELSE IF Len(TrimNl(read)) = 6 THEN "ERR:Empty username"
    ELSE IF held THEN "ERR:Username taken"
    ELSE ""

\* C13: a login line that is rejected (no LOGIN: prefix, empty username, or a
\* username held by a logged-in session) gets exactly one ERR: reply, the one
\* of its kind; the handler then closes and removes the session, which never
\* has logged_in = 1 or a username and for which no event is enqueued.  A login
\* line that is not rejected gets no ERR: reply.
C13_RejectedLogin ==
    \A c \in Clients :
        hist[c].lread # "" =>
            IF Rejection(hist[c].lread, hist[c].held) # ""
            THEN /\ hist[c].lerrs = 1
                 /\ reply[c] = Rejection(hist[c].lread, hist[c].held)
                 /\ pc[c] \in Ended
                 /\ cl[c].logged_in = 0 /\ cl[c].username = NoUser
                 /\ EventsOf(enqLog, c) = {} /\ EventsOf(dropped, c) = {}
                 /\ pc[c] \in { "remove", "free", "done" } => hist[c].closes >= 1
                 /\ pc[c] \in { "free", "done" } =>
                       hist[c].unlinks = 1 /\ ~InList(clients, c)
            ELSE hist[c].lerrs = 0

\* a session rejected for a username that a logged-in session holds, closed,
\* removed and freed while the holder stays
C13_Witness ==
    \E c \in Clients :
        /\ pc[c] = "done" /\ hist[c].held
        /\ reply[c] = "ERR:Username taken"
        /\ hist[c].lerrs = 1 /\ hist[c].unlinks = 1
        /\ \E d \in Audience : d # c

\* a line that is neither MSG:<text> nor exactly QUIT
UnknownLine(line) ==
    /\ ~(Len(line) >= 4 /\ SubSeq(line, 1, 4) = "MSG:")
    /\ line # "QUIT"

\* C14: when the receive loop of a logged-in session takes a line that is
\* neither MSG:<text> nor exactly QUIT, the handler answers ERR:Unknown command
\* and nothing else changes: the registry and the session's struct are as
\* before, nothing is enqueued or dropped, and the handler goes on to the next
\* line of the read, or to the next read when there is none.
C14_UnknownCommand ==
    [][\A c \in Clients :
          ((Recv(c) \/ ProcLine(c)) /\ UnknownLine(hist'[c].line)) =>
              /\ reply'[c] = "ERR:Unknown command"
              /\ cl' = cl /\ clients' = clients /\ fdtab' = fdtab
              /\ cl[c].logged_in = 1 /\ InList(clients, c)
              /\ msgq' = msgq /\ enqLog' = enqLog /\ dropped' = dropped
              /\ pc'[c] = IF rbuf'[c] = "" THEN "loop" ELSE "proc"]_vars

\* a session that was answered ERR:Unknown command and whose next line, QUIT,
\* has been taken since: its leave event is enqueued
C14_Witness ==
    \E c \in Clients :
        /\ reply[c] = "ERR:Unknown command"
        /\ hist[c].line = "QUIT" /\ pc[c] = "close"
        /\ cl[c].logged_in = 1
        /\ \E i \in DOMAIN enqLog : enqLog[i].who = c /\ enqLog[i].kind = "leave"

\* C15: once the shutdown signal has cleared server_running, the shutdown
\* sequence is never stuck: until main has returned, some thread of the server
\* can take a step (main to stop accepting, close the handles and signal the
\* condition, the dispatcher to wake and exit, a handler to end).
C15_ShutdownProceeds == (~server_running /\ Alive) => ENABLED Next

\* C16: a send that fails during a broadcast does not end the broadcast or the
\* dispatcher: while sends of this broadcast have failed the dispatcher is
\* still in the loop over the registry, at the end of the loop every session
\* that was registered and logged in at its start has had its send, and from
\* there the dispatcher returns to dequeue the next event.
C16_FailedSendIgnored ==
    /\ [](bfail # {} => (dpc \in { "d_send", "d_blocked" } /\ bfail \subseteq bsent))
    /\ []((dpc = "d_send" /\ dcur > Len(clients)) => bstart \subseteq bsent)
    /\ [][(bfail # {} /\ dpc' # dpc /\ dpc' # "d_blocked" /\ dpc # "d_blocked") =>
              (dcur > Len(clients) /\ dpc' = "d_loop")]_vars

\* a broadcast at its end whose send to one session failed and whose send to
\* a session later in the registry went through
C16_Witness ==
    /\ dpc = "d_send" /\ dcur > Len(clients)
    /\ \E i, j \in DOMAIN clients :
          /\ i < j
          /\ clients[i] \in bfail
          /\ clients[j] \in bsent \ bfail

\* a registry operation that has been called and needs clients_mutex:
\* remove_client of a handler, add_client of main
RegistryCalled == (\E c \in Clients : pc[c] = "remove") \/ mpc = "m_add"

\* C17: a peer that accepts no more bytes holds nothing up: while the
\* dispatcher's send to such a peer has not returned, no registry operation is
\* kept waiting for a lock and no other logged-in session of the registry is
\* kept waiting for the line.
C17_PeerHoldsNothingUp ==
    dpc = "d_blocked" =>
        /\ ~(RegistryCalled /\ clients_mutex # "free")
        /\ bstart \subseteq bsent \cup { clients[dcur] }

\* the events of one kind of a session in a log
KindIn(log, c, k) == { i \in DOMAIN log : log[i].who = c /\ log[i].kind = k }

\* the handler of c is past its enqueue_message call for the join event
Joined(c) ==
    \/ pc[c] \in { "loop", "recv", "proc" }
    \/ pc[c] \in Ended /\ cl[c].logged_in = 1

\* the events in queue order: those dequeued, then those still queued
QueueOrder == deqLog \o msgq

\* what C18 says of the fields and of the order, whatever became of the call
JoinAfterCommit ==
    \A c \in Clients :
        /\ pc[c] = "join" =>
              /\ cl[c].logged_in = 1 /\ cl[c].username = Strncpy(uname[c], MAX_USERNAME - 1)
              /\ reply[c] = "OK"
              /\ EventsOf(enqLog, c) = {} /\ EventsOf(dropped, c) = {}
        /\ \A i \in KindIn(QueueOrder, c, "join") :
              /\ QueueOrder[i].sender = "Server"
              /\ QueueOrder[i].text = JoinText(cl[c].username)
              /\ cl[c].logged_in = 1
              /\ \A j \in EventsOf(QueueOrder, c) : j # i => i < j

\* C18 as stated: a session whose login was accepted and whose handler is
\* past the announcement has exactly one join event enqueued, sender "Server",
\* which precedes its other events in queue order, and was logged in with its
\* username committed and OK sent before the event was enqueued.
C18_JoinEnqueued ==
    /\ JoinAfterCommit
    /\ \A c \in Clients :
          /\ Cardinality(KindIn(enqLog, c, "join")) <= 1
          /\ Joined(c) => Cardinality(KindIn(enqLog, c, "join")) = 1

\* C18 amended: enqueue_message is called exactly once for the join event, and
\* the event is enqueued unless the allocation in enqueue_message fails.
C18_JoinCalled ==
    /\ JoinAfterCommit
    /\ \A c \in Clients :
          /\ Cardinality(KindIn(enqLog, c, "join")) +
                Cardinality(KindIn(dropped, c, "join")) <= 1
          /\ Joined(c) =>
                Cardinality(KindIn(enqLog, c, "join")) +
                   Cardinality(KindIn(dropped, c, "join")) = 1

\* a session whose join event, MSG event and leave event are all in the queue
\* order
C18_Witness ==
    \E c \in Clients :
        /\ KindIn(QueueOrder, c, "join") # {}
        /\ KindIn(QueueOrder, c, "msg") # {}
        /\ KindIn(QueueOrder, c, "leave") # {}

\* C19: a session whose handler ends before its login completed (read failure
\* or too many attempts in the password phase, read failure or rejection in
\* the login phase) has no leave event, enqueued or dropped; once its handler
\* has closed the connection, close has been called for its handle exactly
\* once, by the handler and by nobody else, and once it has been removed it was
\* unlinked from the registry exactly once.
C19_EarlyEndReleasedOnce ==
    \A c \in Clients :
        (cl[c].logged_in = 0 /\ pc[c] \in Ended) =>
            /\ KindIn(enqLog, c, "leave") = {} /\ KindIn(dropped, c, "leave") = {}
            /\ hist[c].closes + hist[c].shut <= 1
            /\ pc[c] \in { "remove", "free", "done" } =>
                  hist[c].closes + hist[c].shut = 1
            /\ pc[c] \in { "free", "done" } =>
                  hist[c].unlinks = 1 /\ ~InList(clients, c)

\* the protocol state of a handler: 0 not started, 1 AwaitingPassword,
\* 2 AwaitingLogin, 3 Active, 4 Closed
Phase(p) ==
    IF p = "none" THEN 0
    ELSE IF p = "pw" THEN 1
    ELSE IF p \in { "login", "commit", "commit_u", "commit_l" } THEN 2
    ELSE IF p \in LoggedIn THEN 3
    ELSE 4

\* C20: in every step each session stays in its protocol state or moves to a
\* later one; logged_in never goes from 1 back to 0; the username of a session
\* changes only from unset to the name of its accepted login, in a handler
\* that passed the password phase and whose login line was valid and not
\* held, and once set it never changes.
C20_ForwardOnly ==
    [][\A c \in Clients :
          /\ Phase(pc'[c]) >= Phase(pc[c])
          /\ cl[c].logged_in = 1 => cl'[c].logged_in = 1
          /\ cl[c].username # NoUser => cl'[c].username = cl[c].username
          /\ cl'[c].username # cl[c].username =>
                /\ pc[c] \in { "commit", "commit_l" }
                /\ hist[c].passed
                /\ Rejection(hist[c].lread, hist[c].held) = ""
                /\ cl'[c].username = Strncpy(Skip(TrimNl(hist[c].lread), 6), MAX_USERNAME - 1)
          /\ (Phase(pc[c]) < 3 /\ Phase(pc'[c]) = 3) =>
                (cl'[c].logged_in = 1 /\ cl'[c].username # NoUser)]_vars

\* a session that went through all four states: it passed the password, logged
\* in under a name cut to 31 characters, was answered in Active and is closed
C20_Witness ==
    \E c \in Clients :
        /\ pc[c] = "done"
        /\ hist[c].passed
        /\ cl[c].logged_in = 1 /\ cl[c].username = Long31
        /\ reply[c] = "ERR:Unknown command"

\* C21: no thread changes the registry list, or the username or logged_in of
\* a registered session, while another thread holds clients_mutex, and none
\* changes the queue while another thread holds msg_mutex: a thread that held
\* the mutex for its access could not do so.
C21_LockDiscipline ==
    [][/\ clients' # clients => clients_mutex = "free"
       /\ msgq' # msgq => msg_mutex = "free"
       /\ \A c \in Clients :
             (InList(clients, c) /\ (cl'[c].username # cl[c].username
                                        \/ cl'[c].logged_in # cl[c].logged_in)) =>
                 clients_mutex = "free"]_vars

\* C22: every entry of the registry is an allocated session, each at most
\* once; the dispatcher walks the registry only while it holds clients_mutex,
\* the entry at its cursor is allocated, and the registry does not change
\* under a walk.
C22_NoFreedVisited ==
    /\ [](\A i \in DOMAIN clients :
             /\ cl[clients[i]].mem = "live"
             /\ \A j \in DOMAIN clients : clients[i] = clients[j] => i = j)
    /\ [](dpc \in { "d_send", "d_blocked" } => clients_mutex = "dispatcher")
    /\ [][(dpc \in { "d_send", "d_blocked" }) => (clients' = clients)]_vars

\* the dispatcher is inside a walk of the registry while one session has been
\* freed and the handler of another has closed its connection and waits to
\* unlink it
C22_Witness ==
    /\ dpc = "d_send" /\ dcur <= Len(clients)
    /\ \E c, d \in Clients :
          /\ cl[d].mem = "freed" /\ ~InList(clients, d)
          /\ pc[c] = "remove" /\ clients[dcur] = c

\* C23: over the life of the server close is called at most once for the
\* connection handle of each session, counting the close of its handler's
\* close_and_free_client and the close of main's shutdown loop.
C23_ClosedAtMostOnce == \A c \in Clients : hist[c].closes + hist[c].shut <= 1

\* the descriptor in c->sockfd is open and names the connection of c
HandleOpen(c) == fdtab[cl[c].sockfd] = c

\* C24: every send of a broadcast goes to a descriptor that is the open
\* connection handle of the registered, logged-in session it is sent for:
\* never to a descriptor that session has closed, which may by then name the
\* connection of a newly accepted session.
C24_SendsOnOpenHandle == [][\A c \in bsent' \ bsent : HandleOpen(c)]_vars

\* C25: every enqueued event whose sender is "Server" is the join or the leave
\* announcement of a session, with the text the handler makes for it; no event
\* made from a MSG: line has the sender "Server".
C25_ServerOnlyAnnounces ==
    \A i \in DOMAIN enqLog :
        enqLog[i].sender = "Server" =>
            \/ enqLog[i].kind = "join" /\ enqLog[i].text = JoinText(cl[enqLog[i].who].username)
            \/ enqLog[i].kind = "leave" /\ enqLog[i].text = LeaveText(cl[enqLog[i].who].username)

\* C26: the signal handler always runs to its end: while it is running,
\* msg_mutex is not held by the thread it interrupted, so its
\* pthread_mutex_lock(&msg_mutex) is never a wait for its own thread.
C26_HandlerCompletes == spc # "idle" => msg_mutex = "free"

====
